---- MODULE Spec2Model ----
(***************************************************************************)
(* A model of the CallAnApi ability                                        *)
(* (packages/rest/src/screenplay/abilities/CallAnApi.ts).                  *)
(*                                                                         *)
(* A capability wraps an Axios instance (the transport) and owns one       *)
(* lastResponse slot.  request() calls the transport once and attaches the *)
(* two handlers of captureResponseOf to the promise the transport returns; *)
(* when that promise settles, a reaction job is queued and the job runs    *)
(* the handler, which sets lastResponse and settles the promise request()  *)
(* returned.  Reaction jobs run in the order in which they were queued.    *)
(*                                                                         *)
(* A model of Artifact (packages/core/src/model/Artifact.ts) follows it:   *)
(* the base64 check of the constructor, toJSON(), and Artifact.fromJSON()  *)
(* with the lookup of the variant in the module ./artifacts.  A behaviour  *)
(* of ArtifactSpec starts with one serialised artifact the caller has at   *)
(* hand; the two models share no state.                                    *)
(***************************************************************************)
EXTENDS Integers, Sequences, FiniteSets, TLC

\* ------------------------------------------------------------------ bounds
MaxCalls == 2            \* request() calls issued in one behaviour

\* --------------------------------------------------------------- constants
DefaultTimeout == 2000   \* the timeout CallAnApi.at configures

Caps       == {1, 2}     \* capability instances
External   == 1          \* an Axios instance the caller built (CallAnApi.using)
Transports == {1, 2, 3}  \* 2 and 3 are built by CallAnApi.at
NoTransport == 0

\* ------------------------------------------------------------- JS values
\* An optional value is <<>> (absent) or <<v>>.
Undefined == [type |-> "undefined"]

Response(status, data) == [type |-> "object", status |-> status, data |-> data]

R200 == Response(200, <<"ok">>)
R201 == Response(201, <<"created">>)
R404 == Response(404, <<"not found">>)
R500 == Response(500, <<>>)           \* a 5xx response without a body

\* the responses the transport fulfils its promise with
Responses == {R200, R201}

\* !value, for the values a response slot can hold
Not(value) == value.type # "object"

\* ---------------------------------------------------------------- regex
\* pattern occurs in s at position i
At(s, i, pattern) ==
    /\ i >= 1
    /\ i + Len(pattern) - 1 <= Len(s)
    /\ SubSeq(s, i, i + Len(pattern) - 1) = pattern

LineTerminators == {"\n", "\r"}

\* /timeout.*exceeded/.test(s): "timeout", then any characters except line
\* terminators, then "exceeded"
TimeoutExceeded(s) ==
    \E i \in 1..Len(s) :
        /\ At(s, i, "timeout")
        /\ \E j \in (i + 7)..Len(s) :
            /\ At(s, j, "exceeded")
            /\ \A m \in (i + 7)..(j - 1) : SubSeq(s, m, m) \notin LineTerminators

\* /Network Error/.test(s)
NetworkError(s) == \E i \in 1..Len(s) : At(s, i, "Network Error")

\* -------------------------------------------------------- configuration
\* An AxiosRequestConfig: every field is optional.
HeaderNames == {"Accept", "X"}
NoHeaders   == [h \in HeaderNames |-> <<>>]

AxiosRequestConfig(baseURL, timeout, headers) ==
    [baseURL |-> baseURL, timeout |-> timeout, headers |-> headers]

\* axios.create() without arguments
EmptyConfig == AxiosRequestConfig(<<>>, <<>>, NoHeaders)

\* the defaults CallAnApi.at gives the Axios instance it creates
AtDefaults(baseURL) ==
    AxiosRequestConfig(<<baseURL>>, <<DefaultTimeout>>,
        [NoHeaders EXCEPT !["Accept"] = <<"application/json,application/xml">>])

BaseURLs == {"https://myapp.com/api"}

\* the configs passed to request()
RequestConfigs ==
    { EmptyConfig,
      AxiosRequestConfig(<<>>, <<>>, [NoHeaders EXCEPT !["X"] = <<"u">>]) }

\* the functions passed to modifyConfig(), as the assignment each makes to a
\* header of the defaults: cfg => cfg.headers['X'] = 'v'
ConfigFns == { [header |-> "X", value |-> <<"v">>] }

\* the field of the defaults a function assigns, and the value it leaves there
FnField(fn) == fn.header
FnValue(fn) == fn.value

\* fn(original): the defaults after fn has mutated them
ApplyConfigFn(fn, original) ==
    [original EXCEPT !.headers[FnField(fn)] = FnValue(fn)]

\* The configuration Axios sends: the request's own fields over the defaults.
mergeConfig(defaults, config) ==
    [baseURL |-> IF config.baseURL # <<>> THEN config.baseURL ELSE defaults.baseURL,
     timeout |-> IF config.timeout # <<>> THEN config.timeout ELSE defaults.timeout,
     headers |-> [h \in HeaderNames |->
                    IF config.headers[h] # <<>> THEN config.headers[h]
                    ELSE defaults.headers[h]]]

\* ------------------------------------------------- transport rejections
Rejection(message, isTypeError, response) ==
    [message |-> message, isTypeError |-> isTypeError, response |-> response]

Rejections ==
    { Rejection("timeout of 2000ms exceeded", FALSE, Undefined),
      Rejection("timeout of 2000ms exceeded", FALSE, R404),
      Rejection("Network Error", FALSE, Undefined),
      Rejection("Network Error", TRUE, R500),
      Rejection("Cannot read property 'protocol' of undefined", TRUE, Undefined),
      Rejection("Cannot read property 'protocol' of undefined", TRUE, R404),
      Rejection("connect ECONNREFUSED 127.0.0.1:80", FALSE, Undefined),
      Rejection("exceeded the timeout", FALSE, R404),
      Rejection("Request failed with status code 404", FALSE, R404),
      Rejection("Request failed with status code 500", FALSE, R500) }

\* The two patterns, tested once for each message a rejection of the model has.
Messages == { r.message : r \in Rejections }
timeoutTest == [m \in Messages |-> TimeoutExceeded(m)]
networkTest == [m \in Messages |-> NetworkError(m)]

\* how the promise of the transport settles
Fulfilment(response) == [kind |-> "fulfilled", fulfilled |-> response]
Failure(rejected)    == [kind |-> "rejected",  rejected  |-> rejected]
Settlements ==
    { Fulfilment(r) : r \in Responses } \cup { Failure(r) : r \in Rejections }
Pending == [kind |-> "pending"]
\* the settlement of a transport promise after its handler has run
Consumed(settlement) == [kind |-> settlement.kind]

\* ------------------------------------------------------------- errors
\* An error is modelled by its class and its message; the rejection it wraps
\* as its cause is left out.
TestCompromisedError(message) == [name |-> "TestCompromisedError", message |-> message]
LogicError(message)           == [name |-> "LogicError", message |-> message]

\* how the promise request() returned settles
Resolved(value)  == [kind |-> "resolved", value |-> value]
Rejected(error)  == [kind |-> "rejected", error |-> error]

\* ------------------------------------------------------------- state
VARIABLES
    axiosInstance,   \* capability -> the transport it wraps, NoTransport before
                     \* the capability is constructed
    lastResponse,    \* capability -> its lastResponse field
    defaults,        \* transport -> axiosInstance.defaults
    created,         \* the transports that exist
    calls,           \* the request() calls made so far, in the order issued; of
                     \* each: its capability, how the promise of the transport has
                     \* settled (its kind only once the handler has taken the
                     \* value), how the promise request() returned has settled,
                     \* how often it did, and as history, while it is pending:
                     \* before (lastResponse when it was issued) and intervened
                     \* (another call on the capability has resolved since)
    jobs,            \* queue of promise reaction jobs: calls whose transport
                     \* promise has settled and whose handler has not run yet
    wire,            \* the transport calls made in this step
    mapped,          \* what the mapLastResponse() call of this step did,
                     \* NotMapped after any other step
    assigned,        \* history: transport -> field -> <<>> or <<the value the
                     \* latest modifyConfig() function assigned to it>>
    sequential,      \* history: capability -> no request() was made on it while
                     \* another of its calls was pending
    settleOrder,     \* history: calls in the order their transport promise settled
    doneOrder,       \* history: calls in the order the promise of request() settled
    input,           \* the serialised artifact the caller has at hand: its type
                     \* names the variant and its base64EncodedValue is the
                     \* string given to a constructor or to Artifact.fromJSON
    instances,       \* the Artifact instances that exist, in the order created
    serialised,      \* what toJSON() returned, of each call: the instance it was
                     \* called on and the envelope
    result           \* what the Artifact operation of this step did, NoResult
                     \* after any other step

apiVars == <<axiosInstance, lastResponse, defaults, created, calls, jobs, wire, mapped,
             assigned, sequential, settleOrder, doneOrder>>

artifactVars == <<input, instances, serialised, result>>

vars == <<apiVars, artifactVars>>

Fields == HeaderNames \cup {"timeout"}
FieldOf(config, f) == IF f = "timeout" THEN config.timeout ELSE config.headers[f]

\* mapper functions passed to mapLastResponse()
MapFns == {"status", "data"}
ApplyMapFn(fn, response) == IF fn = "status" THEN response.status ELSE response.data

NotMapped == [cap |-> 0, fn |-> "", fnInvoked |-> FALSE, outcome |-> "none",
              returned |-> <<>>, thrown |-> <<>>]

\* no serialised artifact at hand, and no Artifact operation in this step
NoInput  == [type |-> "", base64EncodedValue |-> ""]
NoResult == [op |-> "none", argument |-> NoInput, returned |-> <<>>, thrown |-> <<>>]

\* no capability is constructed yet; the caller has built one Axios instance
ApiInit ==
    /\ axiosInstance = [c \in Caps |-> NoTransport]
    /\ lastResponse  = [c \in Caps |-> Undefined]
    /\ defaults      = [t \in Transports |-> EmptyConfig]
    /\ created       = {External}
    /\ calls         = <<>>
    /\ jobs          = <<>>
    /\ wire          = <<>>
    /\ mapped        = NotMapped
    /\ assigned      = [t \in Transports |-> [f \in Fields |-> <<>>]]
    /\ sequential    = [c \in Caps |-> TRUE]
    /\ settleOrder   = <<>>
    /\ doneOrder     = <<>>

\* no Artifact exists yet
NoArtifacts ==
    /\ instances     = <<>>
    /\ serialised    = {}
    /\ result        = NoResult

Init ==
    /\ ApiInit
    /\ input = NoInput
    /\ NoArtifacts

Constructed(c) == axiosInstance[c] # NoTransport

\* ----------------------------------------------------------- factories
\* CallAnApi.at(baseURL)
at(c, baseURL) ==
    /\ ~Constructed(c)
    /\ \E t \in Transports \ created :
        /\ \A u \in Transports \ created : t <= u
        /\ created' = created \cup {t}
        /\ defaults' = [defaults EXCEPT ![t] = AtDefaults(baseURL)]
        /\ axiosInstance' = [axiosInstance EXCEPT ![c] = t]
    /\ wire' = <<>>
    /\ mapped' = NotMapped
    /\ UNCHANGED <<lastResponse, calls, jobs, assigned, settleOrder, doneOrder, sequential>>
    /\ UNCHANGED artifactVars

\* CallAnApi.using(axiosInstance)
using(c, t) ==
    /\ ~Constructed(c)
    /\ t \in created
    /\ axiosInstance' = [axiosInstance EXCEPT ![c] = t]
    /\ wire' = <<>>
    /\ mapped' = NotMapped
    /\ UNCHANGED <<lastResponse, defaults, created, calls, jobs, assigned,
                   settleOrder, doneOrder, sequential>>
    /\ UNCHANGED artifactVars

\* ---------------------------------------------------------- operations
\* mutant: fn is applied to a copy of the defaults
modifyConfigDefaults_OnCopy(fn, original) == original

\* what modifyConfig(fn) leaves in the defaults of the wrapped instance: fn is
\* applied to the defaults object itself
modifyConfigDefaults(fn, original) == ApplyConfigFn(fn, original)

modifyConfig(c, fn) ==
    /\ Constructed(c)
    /\ LET t == axiosInstance[c] IN
        /\ defaults' = [defaults EXCEPT ![t] = modifyConfigDefaults(fn, @)]
        /\ assigned' = [assigned EXCEPT ![t][FnField(fn)] = <<FnValue(fn)>>]
    /\ wire' = <<>>
    /\ mapped' = NotMapped
    /\ UNCHANGED <<axiosInstance, lastResponse, created, calls, jobs,
                   settleOrder, doneOrder, sequential>>
    /\ UNCHANGED artifactVars

\* mutant: the transport is called a second time
requestSends_Twice(k, t, config) ==
    << [call |-> k, transport |-> t, config |-> config,
        effective |-> mergeConfig(defaults[t], config)],
       [call |-> k, transport |-> t, config |-> config,
        effective |-> mergeConfig(defaults[t], config)] >>

\* the transport calls request(config) makes for call k: one
\* axiosInstance.request(config), which Axios sends as config merged over the
\* defaults of the instance
requestSends(k, t, config) ==
    << [call |-> k, transport |-> t, config |-> config,
        effective |-> mergeConfig(defaults[t], config)] >>

\* the calls on capability c whose promise has not settled yet
PendingOn(c) ==
    { k \in 1..Len(calls) : calls[k].cap = c /\ calls[k].promise = Pending }

request(c, config) ==
    /\ Constructed(c)
    /\ Len(calls) < MaxCalls
    /\ wire' = requestSends(Len(calls) + 1, axiosInstance[c], config)
    /\ sequential' = [sequential EXCEPT ![c] = @ /\ PendingOn(c) = {}]
    /\ calls' = Append(calls,
            [cap        |-> c,
             transport  |-> Pending,
             promise    |-> Pending,
             settled    |-> 0,
             before     |-> lastResponse[c],
             intervened |-> FALSE])
    /\ mapped' = NotMapped
    /\ UNCHANGED <<axiosInstance, lastResponse, defaults, created, jobs,
                   assigned, settleOrder, doneOrder>>
    /\ UNCHANGED artifactVars

\* The transport settles the promise it returned for call k; the handlers
\* captureResponseOf attached to it are queued as a reaction job.
transportSettles(k, settlement) ==
    /\ k \in 1..Len(calls)
    /\ calls[k].transport = Pending
    /\ calls' = [calls EXCEPT ![k].transport = settlement]
    /\ jobs' = Append(jobs, k)
    /\ settleOrder' = Append(settleOrder, k)
    /\ wire' = <<>>
    /\ mapped' = NotMapped
    /\ UNCHANGED <<axiosInstance, lastResponse, defaults, created, assigned,
                   doneOrder, sequential>>
    /\ UNCHANGED artifactVars

\* mutant: the first response captured is kept
onFulfilled_KeepsFirst(slot, fulfilled) ==
    [lastResponse |-> IF Not(slot) THEN fulfilled ELSE slot,
     promise |-> Resolved(fulfilled)]

\* mutant: the response is returned without being stored
onFulfilled_ReturnsOnly(slot, fulfilled) ==
    [lastResponse |-> slot, promise |-> Resolved(fulfilled)]

\* the handler for a fulfilled transport promise
onFulfilled(slot, fulfilled) ==
    [lastResponse |-> fulfilled, promise |-> Resolved(fulfilled)]

\* mutant: the slot is cleared before the error is thrown
throws_ClearsSlot(slot, error) ==
    [lastResponse |-> Undefined, promise |-> Rejected(error)]

\* a throw in the rejection handler: the promise rejects, the slot stays
throws(slot, error) ==
    [lastResponse |-> slot, promise |-> Rejected(error)]

\* mutant: the response is returned without being stored
onRejectedDefault_ReturnsOnly(slot, rejected) ==
    [lastResponse |-> slot, promise |-> Resolved(rejected.response)]

\* the default case of the rejection handler
onRejectedDefault(slot, rejected) ==
    [lastResponse |-> rejected.response, promise |-> Resolved(rejected.response)]

\* mutant: every rejection is taken to carry a response
noResponse_Never(rejected) == FALSE

\* ! (rejected as AxiosError).response
noResponse(rejected) == Not(rejected.response)

\* mutant: the missing response is looked for before the TypeError
onRejected_ResponseCheckFirst(slot, rejected) ==
    IF timeoutTest[rejected.message]
    THEN throws(slot, TestCompromisedError("The request has timed out"))
    ELSE IF networkTest[rejected.message]
    THEN throws(slot, TestCompromisedError("A network error has occurred"))
    ELSE IF noResponse(rejected)
    THEN throws(slot, TestCompromisedError("The API call has failed"))
    ELSE IF rejected.isTypeError
    THEN throws(slot, LogicError("Looks like there was an issue with Axios configuration"))
    ELSE onRejectedDefault(slot, rejected)

\* mutant: the timeout case is missing
onRejected_NoTimeoutCase(slot, rejected) ==
    IF networkTest[rejected.message]
    THEN throws(slot, TestCompromisedError("A network error has occurred"))
    ELSE IF rejected.isTypeError
    THEN throws(slot, LogicError("Looks like there was an issue with Axios configuration"))
    ELSE IF noResponse(rejected)
    THEN throws(slot, TestCompromisedError("The API call has failed"))
    ELSE onRejectedDefault(slot, rejected)

\* mutant: a rejection with a response is resolved before the cases are tried
onRejected_ResponseFirst(slot, rejected) ==
    IF ~noResponse(rejected)
    THEN onRejectedDefault(slot, rejected)
    ELSE IF timeoutTest[rejected.message]
    THEN throws(slot, TestCompromisedError("The request has timed out"))
    ELSE IF networkTest[rejected.message]
    THEN throws(slot, TestCompromisedError("A network error has occurred"))
    ELSE IF rejected.isTypeError
    THEN throws(slot, LogicError("Looks like there was an issue with Axios configuration"))
    ELSE throws(slot, TestCompromisedError("The API call has failed"))

\* mutant: the response of the rejection is stored before the cases are tried
onRejected_StoresFirst(slot, rejected) ==
    LET stored == IF noResponse(rejected) THEN slot ELSE rejected.response IN
    IF timeoutTest[rejected.message]
    THEN throws(stored, TestCompromisedError("The request has timed out"))
    ELSE IF networkTest[rejected.message]
    THEN throws(stored, TestCompromisedError("A network error has occurred"))
    ELSE IF rejected.isTypeError
    THEN throws(stored, LogicError("Looks like there was an issue with Axios configuration"))
    ELSE IF noResponse(rejected)
    THEN throws(stored, TestCompromisedError("The API call has failed"))
    ELSE onRejectedDefault(stored, rejected)

\* the handler for a rejected transport promise: switch (true) takes the first
\* case that is true
onRejected(slot, rejected) ==
    IF timeoutTest[rejected.message]
    THEN throws(slot, TestCompromisedError("The request has timed out"))
    ELSE IF networkTest[rejected.message]
    THEN throws(slot, TestCompromisedError("A network error has occurred"))
    ELSE IF rejected.isTypeError
    THEN throws(slot, LogicError("Looks like there was an issue with Axios configuration"))
    ELSE IF noResponse(rejected)
    THEN throws(slot, TestCompromisedError("The API call has failed"))
    ELSE onRejectedDefault(slot, rejected)

captureResponseOf(slot, settlement) ==
    IF settlement.kind = "fulfilled"
    THEN onFulfilled(slot, settlement.fulfilled)
    ELSE onRejected(slot, settlement.rejected)

\* the reaction job that runs next: jobs run in the order they were queued
NextJob == Head(jobs)

\* mutant: the response is kept with the transport, for every capability
\* that wraps it
runHandler_SlotOfTransport(k) ==
    /\ jobs # <<>>
    /\ k = NextJob
    /\ LET c == calls[k].cap
           r == captureResponseOf(lastResponse[c], calls[k].transport)
       IN /\ lastResponse' = [d \in Caps |->
                IF axiosInstance[d] = axiosInstance[c] THEN r.lastResponse
                ELSE lastResponse[d]]
          /\ calls' = [j \in 1..Len(calls) |->
                IF j = k
                THEN [calls[j] EXCEPT !.promise = r.promise, !.settled = @ + 1,
                                      !.transport = Consumed(@),
                                      !.before = Undefined, !.intervened = FALSE]
                ELSE IF /\ calls[j].cap = c
                        /\ calls[j].promise = Pending
                        /\ r.promise.kind = "resolved"
                     THEN [calls[j] EXCEPT !.intervened = TRUE]
                     ELSE calls[j]]
          /\ jobs' = Tail(jobs)
          /\ doneOrder' = Append(doneOrder, k)
    /\ wire' = <<>>
    /\ mapped' = NotMapped
    /\ UNCHANGED <<axiosInstance, defaults, created, assigned, settleOrder, sequential>>
    /\ UNCHANGED artifactVars

\* A reaction job runs the handler of call k.
runHandler(k) ==
    /\ jobs # <<>>
    /\ k = NextJob
    /\ LET c == calls[k].cap
           r == captureResponseOf(lastResponse[c], calls[k].transport)
       IN /\ lastResponse' = [lastResponse EXCEPT ![c] = r.lastResponse]
          /\ calls' = [j \in 1..Len(calls) |->
                IF j = k
                THEN [calls[j] EXCEPT !.promise = r.promise, !.settled = @ + 1,
                                      !.transport = Consumed(@),
                                      !.before = Undefined, !.intervened = FALSE]
                ELSE IF /\ calls[j].cap = c
                        /\ calls[j].promise = Pending
                        /\ r.promise.kind = "resolved"
                     THEN [calls[j] EXCEPT !.intervened = TRUE]
                     ELSE calls[j]]
          /\ jobs' = Tail(jobs)
          /\ doneOrder' = Append(doneOrder, k)
    /\ wire' = <<>>
    /\ mapped' = NotMapped
    /\ UNCHANGED <<axiosInstance, defaults, created, assigned, settleOrder, sequential>>
    /\ UNCHANGED artifactVars

\* mutant: fn is applied without looking at the slot first
mapLastResponseOf_NoGuard(slot, fn) ==
    IF Not(slot)
    THEN [fnInvoked |-> TRUE, outcome |-> "threw", returned |-> <<>>,
          thrown |-> <<[name |-> "TypeError", message |-> "Cannot read property of undefined"]>>]
    ELSE [fnInvoked |-> TRUE, outcome |-> "returned",
          returned |-> <<ApplyMapFn(fn, slot)>>, thrown |-> <<>>]

\* mutant: a response without a body is taken for an unset slot
mapLastResponseOf_NeedsBody(slot, fn) ==
    IF Not(slot) \/ slot.data = <<>>
    THEN [fnInvoked |-> FALSE, outcome |-> "threw", returned |-> <<>>,
          thrown |-> <<LogicError("Make sure to perform a HTTP API call before checking on the response")>>]
    ELSE [fnInvoked |-> TRUE, outcome |-> "returned",
          returned |-> <<ApplyMapFn(fn, slot)>>, thrown |-> <<>>]

\* what mapLastResponse(fn) does given the slot
mapLastResponseOf(slot, fn) ==
    IF Not(slot)
    THEN [fnInvoked |-> FALSE, outcome |-> "threw", returned |-> <<>>,
          thrown |-> <<LogicError("Make sure to perform a HTTP API call before checking on the response")>>]
    ELSE [fnInvoked |-> TRUE, outcome |-> "returned",
          returned |-> <<ApplyMapFn(fn, slot)>>, thrown |-> <<>>]

\* mutant: the response is taken out of the slot when it is read
mapLastResponse_Consumes(c, fn) ==
    /\ Constructed(c)
    /\ LET r == mapLastResponseOf(lastResponse[c], fn) IN
        mapped' = [cap |-> c, fn |-> fn, fnInvoked |-> r.fnInvoked,
                   outcome |-> r.outcome, returned |-> r.returned, thrown |-> r.thrown]
    /\ lastResponse' = [lastResponse EXCEPT ![c] = Undefined]
    /\ wire' = <<>>
    /\ UNCHANGED <<axiosInstance, defaults, created, calls, jobs,
                   assigned, settleOrder, doneOrder, sequential>>
    /\ UNCHANGED artifactVars

mapLastResponse(c, fn) ==
    /\ Constructed(c)
    /\ LET r == mapLastResponseOf(lastResponse[c], fn) IN
        mapped' = [cap |-> c, fn |-> fn, fnInvoked |-> r.fnInvoked,
                   outcome |-> r.outcome, returned |-> r.returned, thrown |-> r.thrown]
    /\ wire' = <<>>
    /\ UNCHANGED <<axiosInstance, lastResponse, defaults, created, calls, jobs,
                   assigned, settleOrder, doneOrder, sequential>>
    /\ UNCHANGED artifactVars

\* ================================================================ Artifact
\* ------------------------------------------------------------------ bounds
MaxLen       == 8        \* length of the strings given as base64EncodedValue
MaxArtifacts == 2        \* Artifact instances created in one behaviour

\* ----------------------------------------------------------------- strings
\* The characters the strings are made of: one of the base64 alphabet, the
\* padding character, and one that is neither.
Characters == {"A", "=", "-"}

RECURSIVE StringsOfLength(_)
StringsOfLength(n) ==
    IF n = 0 THEN {""}
    ELSE { s \o c : s \in StringsOfLength(n - 1), c \in Characters }

Strings == UNION { StringsOfLength(n) : n \in 0..MaxLen }

\* s.includes(part)
Includes(s, part) == \E i \in 1..Len(s) : At(s, i, part)

\* array.join(separator)
RECURSIVE join(_, _)
join(array, separator) ==
    IF array = <<>> THEN ""
    ELSE IF Len(array) = 1 THEN array[1]
    ELSE array[1] \o separator \o join(Tail(array), separator)

\* ------------------------------------------------------------------ base64
\* [A-Za-z0-9+/]
Base64Alphabet ==
    { "A", "B", "C", "D", "E", "F", "G", "H", "I", "J", "K", "L", "M",
      "N", "O", "P", "Q", "R", "S", "T", "U", "V", "W", "X", "Y", "Z",
      "a", "b", "c", "d", "e", "f", "g", "h", "i", "j", "k", "l", "m",
      "n", "o", "p", "q", "r", "s", "t", "u", "v", "w", "x", "y", "z",
      "0", "1", "2", "3", "4", "5", "6", "7", "8", "9", "+", "/" }

\* the characters of s at positions i..j are all of the class
AllOf(s, i, j, class) == \A m \in i..j : SubSeq(s, m, m) \in class

\* one alternative of the last group, at positions i..i+3 of s:
\* [A-Za-z0-9+/]{4}, [A-Za-z0-9+/]{3}= or [A-Za-z0-9+/]{2}==
LastGroup(s, i) ==
    \/ AllOf(s, i, i + 3, Base64Alphabet)
    \/ AllOf(s, i, i + 2, Base64Alphabet) /\ SubSeq(s, i + 3, i + 3) = "="
    \/ AllOf(s, i, i + 1, Base64Alphabet) /\ SubSeq(s, i + 2, i + 3) = "=="

\* mutant: every group may be padded, /^(....|...=|..==)+$/
looksLikeBase64Encoded_PaddingInAnyGroup(value) ==
    /\ Len(value) > 0
    /\ Len(value) % 4 = 0
    /\ \A n \in 0..((Len(value) \div 4) - 1) : LastGroup(value, 4 * n + 1)

\* regex.test(value) for
\* /^([A-Za-z0-9+/]{4})*([A-Za-z0-9+/]{4}|[A-Za-z0-9+/]{3}=|[A-Za-z0-9+/]{2}==)$/:
\* n repetitions of the first group from the start of the string, then the last
\* group, then the end of the string
looksLikeBase64Encoded(value) ==
    \E n \in 0..(Len(value) \div 4) :
        /\ AllOf(value, 1, 4 * n, Base64Alphabet)
        /\ 4 * n + 4 = Len(value)
        /\ LastGroup(value, 4 * n + 1)

\* ---------------------------------------------------------------- registry
\* A constructor of a concrete variant, by the name of its class.
Variant(name) == [name |-> name]

\* The module ./artifacts: its exports in the order declared, each the
\* constructor of a variant under the name of its class.
artifacts ==
    << [key |-> "Photo",    value |-> Variant("Photo")],
       [key |-> "TextData", value |-> Variant("TextData")] >>

\* Object.keys(object)
ObjectKeys(object) == [i \in 1..Len(object) |-> object[i].key]

\* array.find(element => element === name): <<>> stands for undefined
find(array, name) ==
    IF \E i \in 1..Len(array) : array[i] = name
    THEN << array[CHOOSE i \in 1..Len(array) :
                /\ array[i] = name
                /\ \A j \in 1..(i - 1) : array[j] # name] >>
    ELSE <<>>

\* object[key], where key is <<>> (undefined) or <<a name>>: an object has no
\* property named "undefined" unless it is one of its keys
Property(object, key) ==
    IF key # <<>> /\ \E i \in 1..Len(object) : object[i].key = key[1]
    THEN << object[CHOOSE i \in 1..Len(object) : object[i].key = key[1]].value >>
    ELSE <<>>

\* Artifact.ofType(name)
ofType(name) ==
    LET types == ObjectKeys(artifacts)
        type  == find(types, name)
    IN  Property(artifacts, type)

\* ------------------------------------------------------------- operations
\* what an operation gives: a value it returns or an error it throws
Returns(value) == [returned |-> <<value>>, thrown |-> <<>>]
Throws(error)  == [returned |-> <<>>, thrown |-> <<error>>]

\* The error ensure() throws when a predicate does not hold of the value.
ensure(description, expectation) ==
    [name |-> "Error", message |-> description \o " should " \o expectation]

\* mutant: the value is stored without being checked
ArtifactOf_Unchecked(constructor, base64EncodedValue) ==
    Returns([constructor |-> constructor, base64EncodedValue |-> base64EncodedValue])

\* new constructor(base64EncodedValue), for the constructor of a variant: the
\* value is a string, so of isDefined(), isString() and
\* looksLikeBase64Encoded() only the last can fail
ArtifactOf(constructor, base64EncodedValue) ==
    IF looksLikeBase64Encoded(base64EncodedValue)
    THEN Returns([constructor |-> constructor, base64EncodedValue |-> base64EncodedValue])
    ELSE Throws(ensure(constructor.name, "be base64-encoded"))

\* mutant: the type is the name of the base class
toJSONOf_BaseClassName(instance) ==
    [type |-> "Artifact", base64EncodedValue |-> instance.base64EncodedValue]

\* instance.toJSON()
toJSONOf(instance) ==
    [type |-> instance.constructor.name,
     base64EncodedValue |-> instance.base64EncodedValue]

\* the message of the error for an unknown type, the white space the template
\* has around its two lines left out
UnknownType(type, recognisedTypes) ==
    "Couldn't de-serialise artifact of an unknown type.\n"
        \o type \o " is not one of the recognised types: "
        \o join(recognisedTypes, ", ")

\* mutant: an unknown type is de-serialised as the first variant exported
fromJSONOf_DefaultsToFirst(o) ==
    LET type == ofType(o.type)
    IN  IF type = <<>>
        THEN ArtifactOf(artifacts[1].value, o.base64EncodedValue)
        ELSE ArtifactOf(type[1], o.base64EncodedValue)

\* mutant: the instance is built from the envelope without running the
\* constructor
fromJSONOf_Assigns(o) ==
    LET recognisedTypes == ObjectKeys(artifacts)
        type            == ofType(o.type)
    IN  IF type = <<>>
        THEN Throws(LogicError(UnknownType(o.type, recognisedTypes)))
        ELSE Returns([constructor |-> type[1],
                      base64EncodedValue |-> o.base64EncodedValue])

\* Artifact.fromJSON(o)
fromJSONOf(o) ==
    LET recognisedTypes == ObjectKeys(artifacts)
        type            == ofType(o.type)
    IN  IF type = <<>>
        THEN Throws(LogicError(UnknownType(o.type, recognisedTypes)))
        ELSE ArtifactOf(type[1], o.base64EncodedValue)

\* the instances after an operation that gave r
Created(r) == IF r.returned # <<>> THEN Append(instances, r.returned[1]) ELSE instances

\* new V(input.base64EncodedValue), for the variant V exported as name
Artifact(name) ==
    /\ Len(instances) < MaxArtifacts
    /\ name = input.type
    /\ Property(artifacts, <<name>>) # <<>>
    /\ LET r == ArtifactOf(Property(artifacts, <<name>>)[1], input.base64EncodedValue) IN
        /\ instances' = Created(r)
        /\ result' = [op |-> "new", argument |-> input,
                      returned |-> r.returned, thrown |-> r.thrown]
    /\ UNCHANGED <<input, serialised>>
    /\ UNCHANGED apiVars

\* instances[i].toJSON()
toJSON(i) ==
    /\ i \in 1..Len(instances)
    /\ serialised' = serialised \cup { [of |-> i, envelope |-> toJSONOf(instances[i])] }
    /\ result' = [op |-> "toJSON", argument |-> NoInput,
                  returned |-> <<instances[i]>>, thrown |-> <<>>]
    /\ UNCHANGED <<input, instances>>
    /\ UNCHANGED apiVars

\* the serialised artifacts there are to de-serialise: the one the caller has
\* and those toJSON() returned
Envelopes == {input} \cup { e.envelope : e \in serialised }

\* Artifact.fromJSON(o)
fromJSON(o) ==
    /\ Len(instances) < MaxArtifacts
    /\ o \in Envelopes
    /\ LET r == fromJSONOf(o) IN
        /\ instances' = Created(r)
        /\ result' = [op |-> "fromJSON", argument |-> o,
                      returned |-> r.returned, thrown |-> r.thrown]
    /\ UNCHANGED <<input, serialised>>
    /\ UNCHANGED apiVars

\* ------------------------------------------------------- specification
\* One capability, built by either factory.
Solo == {1}

Next ==
    \/ \E c \in Solo, b \in BaseURLs : at(c, b)
    \/ \E c \in Solo, t \in Transports : using(c, t)
    \/ \E c \in Solo, fn \in ConfigFns : modifyConfig(c, fn)
    \/ \E c \in Solo, config \in RequestConfigs : request(c, config)
    \/ \E k \in 1..MaxCalls, s \in Settlements : transportSettles(k, s)
    \/ \E k \in 1..MaxCalls : runHandler(k)
    \/ \E c \in Solo, fn \in MapFns : mapLastResponse(c, fn)

Spec == Init /\ [][Next]_vars

\* The reaction jobs of settled promises are run: the job queue is drained
\* whenever the call stack empties.
FairSpec == Spec /\ WF_vars(\E k \in 1..MaxCalls : runHandler(k))

\* --------------------------------------- specification: cases that overlap
\* A transport whose rejections all carry a response, but for the one that is
\* neither a timeout, a network error nor a TypeError: whenever one of the
\* first three cases of the handler is true, the default case would apply too.
OverlapSettlements ==
    { s \in Settlements :
        \/ s.kind = "fulfilled"
        \/ ~noResponse(s.rejected)
        \/ /\ ~timeoutTest[s.rejected.message]
           /\ ~networkTest[s.rejected.message]
           /\ ~s.rejected.isTypeError }

OverlapNext ==
    \/ \E c \in Solo, b \in BaseURLs : at(c, b)
    \/ \E c \in Solo, t \in Transports : using(c, t)
    \/ \E c \in Solo, fn \in ConfigFns : modifyConfig(c, fn)
    \/ \E c \in Solo, config \in RequestConfigs : request(c, config)
    \/ \E k \in 1..MaxCalls, s \in OverlapSettlements : transportSettles(k, s)
    \/ \E k \in 1..MaxCalls : runHandler(k)
    \/ \E c \in Solo, fn \in MapFns : mapLastResponse(c, fn)

OverlapSpec == Init /\ [][OverlapNext]_vars

\* ------------------------------- specification: two capabilities, one transport
\* Two capabilities are built with using() over the Axios instance the caller
\* has; the first of them is the one modifyConfig() is called on.
Configurer == 1

\* how the transport settles: with a response, with a rejection that carries
\* one, and with one that does not
SharedSettlements ==
    { Fulfilment(R200),
      Failure(Rejection("Request failed with status code 404", FALSE, R404)),
      Failure(Rejection("timeout of 2000ms exceeded", FALSE, Undefined)) }

SharedNext ==
    \/ \E c \in Caps : using(c, External)
    \/ \E fn \in ConfigFns : modifyConfig(Configurer, fn)
    \/ \E c \in Caps, config \in RequestConfigs : request(c, config)
    \/ \E k \in 1..MaxCalls, s \in SharedSettlements : transportSettles(k, s)
    \/ \E k \in 1..MaxCalls : runHandler(k)
    \/ \E c \in Caps, fn \in MapFns : mapLastResponse(c, fn)

SharedSpec == Init /\ [][SharedNext]_vars

\* ------------------------------------------------ specification: Artifact
\* the type names a serialised artifact comes with: those of the variants
\* exported, and one of none
TypeNames == {"Photo", "TextData", "Video"}

\* the serialised artifacts a caller can have
Inputs == { [type |-> t, base64EncodedValue |-> s] : t \in TypeNames, s \in Strings }

ArtifactInit ==
    /\ ApiInit
    /\ input \in Inputs
    /\ NoArtifacts

ArtifactNext ==
    \/ \E name \in TypeNames : Artifact(name)
    \/ \E i \in 1..MaxArtifacts : toJSON(i)
    \/ \E o \in Envelopes : fromJSON(o)

ArtifactSpec == ArtifactInit /\ [][ArtifactNext]_vars

\* ------------------------------------------------------ vocabulary
Issued == 1..Len(calls)
CallsOn(c) == { k \in Issued : calls[k].cap = c }

\* this step runs the handler of call k: the promise of request() settles
Settles(k) ==
    /\ k \in Issued
    /\ calls[k].promise = Pending
    /\ calls'[k].promise # Pending

\* this step is a mapLastResponse(fn) call on capability c
Maps(c, fn) == mapped'.cap = c /\ mapped'.fn = fn

\* this step is a request() call
Requests == Len(calls') = Len(calls) + 1

RejectedWith(k) == calls[k].transport.rejected
IsRejection(k)  == calls[k].transport.kind = "rejected"
IsFulfilment(k) == calls[k].transport.kind = "fulfilled"

CarriesResponse(rejected) == rejected.response.type = "object"

IsCompromised(promise) ==
    promise.kind = "rejected" /\ promise.error.name = "TestCompromisedError"
IsLogicError(promise) ==
    promise.kind = "rejected" /\ promise.error.name = "LogicError"

\* position of call k in a history
Position(order, k) == CHOOSE i \in 1..Len(order) : order[i] = k
InOrder(order, k)  == \E i \in 1..Len(order) : order[i] = k

\* the calls on c that have resolved, and the one that did so last
ResolvedOn(c) == { k \in CallsOn(c) : calls[k].promise.kind = "resolved" }
LastResolved(c) ==
    CHOOSE k \in ResolvedOn(c) :
        \A j \in ResolvedOn(c) : Position(doneOrder, j) <= Position(doneOrder, k)

\* the calls on c were awaited one at a time
Sequential(c) == sequential[c]

Max(S) == CHOOSE k \in S : \A j \in S : j <= k

\* --------------------------------------------------------------- C1
\* C1: when the handler of a call runs on a rejection that carries a response
\* and is neither a timeout, a network error nor a TypeError, the promise of
\* request() resolves with exactly that response and lastResponse holds it; and
\* a mapLastResponse(r => r.status) made while that call is the latest one
\* resolved on the capability returns the status of that response.
PlainResponseRejection(rejected) ==
    /\ CarriesResponse(rejected)
    /\ ~TimeoutExceeded(rejected.message)
    /\ ~NetworkError(rejected.message)
    /\ ~rejected.isTypeError

C1_Step ==
    /\ \A k \in Issued :
        (Settles(k) /\ IsRejection(k) /\ PlainResponseRejection(RejectedWith(k))) =>
            /\ calls'[k].promise = Resolved(RejectedWith(k).response)
            /\ lastResponse'[calls[k].cap] = RejectedWith(k).response
    /\ \A c \in Caps :
        (/\ Maps(c, "status")
         /\ ResolvedOn(c) # {}
         /\ IsRejection(LastResolved(c))) =>
            /\ mapped'.outcome = "returned"
            /\ mapped'.returned = <<calls[LastResolved(c)].promise.value.status>>

C1_RejectionWithResponseResolves == [][C1_Step]_vars

\* a 404 rejection has been resolved and mapLastResponse(r => r.status) gave 404
C1_Witness ==
    /\ mapped.fn = "status"
    /\ mapped.returned = <<404>>
    /\ \E k \in Issued :
        /\ IsRejection(k)
        /\ calls[k].promise = Resolved(R404)
        /\ lastResponse[calls[k].cap] = R404

\* --------------------------------------------------------------- C2
\* C2: when the handler of a call runs on a fulfilment with response r, the
\* promise of request() resolves with r and lastResponse holds r in the same
\* step, so no caller sees the resolution before the slot is written; and when
\* the calls on a capability are awaited one at a time, mapLastResponse(fn)
\* returns fn of the value the most recently issued resolved call resolved with.
C2_Step ==
    /\ \A k \in Issued :
        (Settles(k) /\ IsFulfilment(k)) =>
            /\ calls'[k].promise = Resolved(calls[k].transport.fulfilled)
            /\ lastResponse'[calls[k].cap] = calls[k].transport.fulfilled
    /\ \A c \in Caps, fn \in MapFns :
        (Maps(c, fn) /\ Sequential(c) /\ ResolvedOn(c) # {}) =>
            /\ mapped'.outcome = "returned"
            /\ mapped'.returned = <<ApplyMapFn(fn, calls[Max(ResolvedOn(c))].promise.value)>>

C2_FulfilmentOverwritesLastResponse == [][C2_Step]_vars

\* two calls awaited one after the other resolved with different responses,
\* the second by fulfilment, and mapLastResponse returned fn of the second
C2_Witness ==
    /\ Len(calls) = 2
    /\ calls[1].cap = calls[2].cap
    /\ Sequential(calls[1].cap)
    /\ calls[1].promise.kind = "resolved"
    /\ IsFulfilment(2)
    /\ calls[2].promise = Resolved(R201)
    /\ calls[1].promise.value # R201
    /\ mapped.fn = "data"
    /\ mapped.returned = <<R201.data>>

\* --------------------------------------------------------------- C3
\* C3 as stated: when the handler of a call runs on a rejection whose message
\* matches the timeout pattern, the promise of request() rejects with a
\* TestCompromisedError and lastResponse is what it was when the request was
\* issued.
C3_AsStated_Step ==
    \A k \in Issued :
        (Settles(k) /\ IsRejection(k) /\ TimeoutExceeded(RejectedWith(k).message)) =>
            /\ IsCompromised(calls'[k].promise)
            /\ lastResponse'[calls[k].cap] = calls[k].before

C3_AsStated == [][C3_AsStated_Step]_vars

\* C3 amended: on such a rejection the promise of request() rejects with a
\* TestCompromisedError and the handler leaves lastResponse as it found it;
\* lastResponse is what it was when the request was issued provided no other
\* call on the capability has resolved in between.
C3_Step ==
    \A k \in Issued :
        (Settles(k) /\ IsRejection(k) /\ TimeoutExceeded(RejectedWith(k).message)) =>
            /\ IsCompromised(calls'[k].promise)
            /\ lastResponse'[calls[k].cap] = lastResponse[calls[k].cap]
            /\ ~calls[k].intervened => lastResponse'[calls[k].cap] = calls[k].before

C3_TimeoutRejectsAndKeepsLastResponse == [][C3_Step]_vars

\* a timeout was rejected as compromised while lastResponse held the response
\* of an earlier call
C3_Witness ==
    \E k \in Issued :
        /\ IsRejection(k)
        /\ calls[k].promise =
                Rejected(TestCompromisedError("The request has timed out"))
        /\ Sequential(calls[k].cap)
        /\ lastResponse[calls[k].cap] = R200

\* --------------------------------------------------------------- C4
\* C4: when the handler of a call runs on a rejection whose message matches
\* "Network Error" and that has no response, the promise of request() rejects
\* with a TestCompromisedError and the handler leaves lastResponse as it was.
C4_Step ==
    \A k \in Issued :
        (/\ Settles(k) /\ IsRejection(k)
         /\ NetworkError(RejectedWith(k).message)
         /\ ~CarriesResponse(RejectedWith(k))) =>
            /\ IsCompromised(calls'[k].promise)
            /\ lastResponse'[calls[k].cap] = lastResponse[calls[k].cap]

C4_NetworkErrorRejects == [][C4_Step]_vars

\* a network error was rejected as compromised while a response was stored
C4_Witness ==
    \E k \in Issued :
        /\ IsRejection(k)
        /\ calls[k].promise =
                Rejected(TestCompromisedError("A network error has occurred"))
        /\ lastResponse[calls[k].cap] = R201

\* --------------------------------------------------------------- C5
\* C5: when the handler of a call runs on a TypeError whose message matches
\* neither pattern, the promise of request() rejects with a LogicError, not a
\* TestCompromisedError, and the handler leaves lastResponse as it was.
C5_Step ==
    \A k \in Issued :
        (/\ Settles(k) /\ IsRejection(k)
         /\ RejectedWith(k).isTypeError
         /\ ~TimeoutExceeded(RejectedWith(k).message)
         /\ ~NetworkError(RejectedWith(k).message)) =>
            /\ IsLogicError(calls'[k].promise)
            /\ ~IsCompromised(calls'[k].promise)
            /\ lastResponse'[calls[k].cap] = lastResponse[calls[k].cap]

C5_TypeErrorRejectsAsLogicError == [][C5_Step]_vars

\* a TypeError was rejected as a logic error while a response was stored
C5_Witness ==
    \E k \in Issued :
        /\ IsRejection(k)
        /\ calls[k].promise = Rejected(LogicError(
                "Looks like there was an issue with Axios configuration"))
        /\ lastResponse[calls[k].cap] = R404

\* --------------------------------------------------------------- C6
\* C6: when the handler of a call runs on a rejection that has no response,
\* is no TypeError and matches neither pattern, the promise of request()
\* rejects with a TestCompromisedError and the handler leaves lastResponse as
\* it was.
C6_Step ==
    \A k \in Issued :
        (/\ Settles(k) /\ IsRejection(k)
         /\ ~CarriesResponse(RejectedWith(k))
         /\ ~RejectedWith(k).isTypeError
         /\ ~TimeoutExceeded(RejectedWith(k).message)
         /\ ~NetworkError(RejectedWith(k).message)) =>
            /\ IsCompromised(calls'[k].promise)
            /\ lastResponse'[calls[k].cap] = lastResponse[calls[k].cap]

C6_NoResponseRejects == [][C6_Step]_vars

\* two rejections without response were rejected as compromised by the
\* fourth case, and nothing was stored
C6_Witness ==
    /\ Len(calls) = 2
    /\ \A k \in Issued :
        /\ IsRejection(k)
        /\ calls[k].promise = Rejected(TestCompromisedError("The API call has failed"))
    /\ lastResponse[calls[1].cap] = Undefined

\* --------------------------------------------------------------- C7
\* C7: a mapLastResponse(fn) call on a capability on which no call has
\* resolved throws a LogicError and does not invoke fn, whichever factory
\* built the capability and whatever modifyConfig calls were made.
C7_Step ==
    \A c \in Caps, fn \in MapFns :
        (Maps(c, fn) /\ ResolvedOn(c) = {}) =>
            /\ mapped'.outcome = "threw"
            /\ mapped'.returned = <<>>
            /\ Len(mapped'.thrown) = 1
            /\ mapped'.thrown[1].name = "LogicError"
            /\ ~mapped'.fnInvoked

C7_MapBeforeAnyResponseThrows == [][C7_Step]_vars

\* mapLastResponse threw on a capability built by at(), after a modifyConfig
\* and after a call that was rejected
C7_Witness ==
    /\ mapped.outcome = "threw"
    /\ axiosInstance[mapped.cap] # External
    /\ assigned[axiosInstance[mapped.cap]]["X"] # <<>>
    /\ \E k \in CallsOn(mapped.cap) : calls[k].promise.kind = "rejected"

\* --------------------------------------------------------------- C8
\* C8: among the calls on a capability that have resolved, the one whose
\* transport promise settled last is the one whose response lastResponse
\* holds, whatever the order in which the calls were issued.
C8_LastCompletionWins ==
    \A c \in Caps : \A k \in ResolvedOn(c) :
        (\A j \in ResolvedOn(c) : Position(settleOrder, j) <= Position(settleOrder, k))
            => lastResponse[c] = calls[k].promise.value

\* two calls were in flight together, the second settled first, and
\* lastResponse holds the response of the first
C8_Witness ==
    /\ Len(calls) = 2
    /\ calls[1].cap = calls[2].cap
    /\ ~Sequential(calls[1].cap)
    /\ settleOrder = <<2, 1>>
    /\ calls[1].promise = Resolved(R200)
    /\ calls[2].promise = Resolved(R404)
    /\ lastResponse[calls[1].cap] = R200

\* --------------------------------------------------------------- C9
\* C9: a request() is sent with, for every field of the configuration, the
\* value its own config gives, and where its own config gives none, the value
\* the latest modifyConfig function assigned to that field of the defaults of
\* its transport, if any did.
C9_Step ==
    Requests =>
        /\ wire' # <<>>
        /\ \A i \in 1..Len(wire') : \A f \in Fields :
            LET sent == wire'[i] IN
                IF FieldOf(sent.config, f) # <<>>
                THEN FieldOf(sent.effective, f) = FieldOf(sent.config, f)
                ELSE assigned[sent.transport][f] # <<>> =>
                        FieldOf(sent.effective, f) = assigned[sent.transport][f][1]

C9_RequestsObserveModifiedDefaults == [][C9_Step]_vars

\* after modifyConfig set header X on a capability built by at(), a request
\* without fields of its own was sent with that header and the other defaults
C9_Witness ==
    /\ Len(wire) = 1
    /\ wire[1].config = EmptyConfig
    /\ assigned[wire[1].transport]["X"] = << <<"v">> >>
    /\ wire[1].effective.headers["X"] = <<"v">>
    /\ wire[1].effective.timeout = <<DefaultTimeout>>

\* -------------------------------------------------------------- C10
\* C10: a request() step makes exactly one transport call and no other step
\* makes any; the promise of request() settles once, by the handler that runs
\* after the transport promise has settled, and keeps its value; it resolves
\* with a response object unless the rejection is a timeout, a network error,
\* a TypeError or without response, and then it rejects; and once the
\* transport promise has settled the promise of request() settles too.
Classified(rejected) ==
    \/ TimeoutExceeded(rejected.message)
    \/ NetworkError(rejected.message)
    \/ rejected.isTypeError
    \/ ~CarriesResponse(rejected)

C10_State ==
    \A k \in Issued :
        /\ calls[k].settled <= 1
        /\ calls[k].transport = Pending => (calls[k].promise = Pending /\ ~InOrder(jobs, k))
        /\ calls[k].promise = Pending =>
            /\ calls[k].settled = 0
            /\ calls[k].transport # Pending =>
                    Cardinality({i \in 1..Len(jobs) : jobs[i] = k}) = 1
        /\ calls[k].promise # Pending =>
            /\ calls[k].settled = 1
            /\ ~InOrder(jobs, k)
            /\ calls[k].promise.kind = "resolved" => calls[k].promise.value.type = "object"

C10_Step ==
    /\ IF Requests
       THEN Len(wire') = 1 /\ wire'[1].call = Len(calls')
       ELSE wire' = <<>>
    /\ \A k \in Issued :
        /\ calls[k].promise # Pending => calls'[k].promise = calls[k].promise
        /\ Settles(k) =>
            /\ calls[k].transport # Pending
            /\ IF IsRejection(k) /\ Classified(RejectedWith(k))
               THEN calls'[k].promise.kind = "rejected"
               ELSE calls'[k].promise.kind = "resolved"

\* The job queue empties again and again; by C10_State a call whose transport
\* promise has settled is in the queue until its handler has settled the
\* promise of request(), so none is left pending.
C10_Settles == []<>(jobs = <<>>)

C10_OneTransportCallOneSettlement ==
    /\ []C10_State
    /\ [][C10_Step]_vars
    /\ C10_Settles

\* one call has resolved and one has rejected, each after one transport call
C10_Witness ==
    /\ Len(calls) = 2
    /\ calls[1].promise.kind = "resolved"
    /\ calls[2].promise.kind = "rejected"
    /\ calls[1].settled = 1
    /\ calls[2].settled = 1
    /\ jobs = <<>>

\* ------------------------------------------------- vocabulary: Artifact
\* the character of s at position i
Char(s, i) == SubSeq(s, i, i)

\* s is well-formed base64: one or more groups of four characters of the
\* alphabet, of which the last may end in "=" or in "=="
WellFormed(s) ==
    /\ Len(s) >= 4
    /\ Len(s) % 4 = 0
    /\ \A i \in 1..(Len(s) - 2) : Char(s, i) \in Base64Alphabet
    /\ \/ Char(s, Len(s) - 1) \in Base64Alphabet /\ Char(s, Len(s)) \in Base64Alphabet
       \/ Char(s, Len(s) - 1) \in Base64Alphabet /\ Char(s, Len(s)) = "="
       \/ Char(s, Len(s) - 1) = "=" /\ Char(s, Len(s)) = "="

\* the names under which a variant is registered
Registered == { artifacts[i].key : i \in 1..Len(artifacts) }

\* the variant registered under a name
RegisteredAs(name) ==
    artifacts[CHOOSE i \in 1..Len(artifacts) : artifacts[i].key = name].value

\* this step is the operation op
Does(op) == result'.op = op

\* this step gave a new instance / threw
GaveInstance == result'.returned # <<>> /\ result'.thrown = <<>>
Threw(name) ==
    /\ result'.returned = <<>>
    /\ Len(result'.thrown) = 1
    /\ result'.thrown[1].name = name

\* -------------------------------------------------------------- C11
\* C11: the envelope toJSON() gives for an instance has as type the name its
\* variant is registered under and as base64EncodedValue the value of the
\* instance; and Artifact.fromJSON of an envelope toJSON() gave for an
\* instance returns a new instance of the same variant with the same
\* base64EncodedValue.
C11_Step ==
    /\ \A e \in serialised' \ serialised :
        /\ e.envelope.type \in Registered
        /\ RegisteredAs(e.envelope.type) = instances[e.of].constructor
        /\ e.envelope.base64EncodedValue = instances[e.of].base64EncodedValue
    /\ \A e \in serialised :
        (Does("fromJSON") /\ result'.argument = e.envelope) =>
            /\ GaveInstance
            /\ result'.returned[1].constructor = instances[e.of].constructor
            /\ result'.returned[1].base64EncodedValue = instances[e.of].base64EncodedValue
            /\ instances' = Append(instances, result'.returned[1])

C11_RoundTrip == [][C11_Step]_vars

\* a TextData of two groups, the second padded, was serialised and
\* de-serialised into a second TextData of the same value
C11_Witness ==
    /\ result.op = "fromJSON"
    /\ Len(instances) = 2
    /\ [of |-> 1, envelope |-> result.argument] \in serialised
    /\ result.argument = [type |-> "TextData", base64EncodedValue |-> "AAAAAA=="]
    /\ instances[1] = [constructor |-> Variant("TextData"), base64EncodedValue |-> "AAAAAA=="]
    /\ instances[2] = instances[1]
    /\ result.returned = <<instances[2]>>

\* -------------------------------------------------------------- C12
\* C12: constructing a variant with a string that is not well-formed base64
\* throws the error of ensure(), which is no LogicError, and leaves the
\* instances as they were.
C12_Step ==
    (Does("new") /\ ~WellFormed(result'.argument.base64EncodedValue)) =>
        /\ Threw("Error")
        /\ instances' = instances

C12_NonBase64FailsAtConstruction == [][C12_Step]_vars

\* a Photo was constructed with a string whose first group is padded, and the
\* constructor threw
C12_Witness ==
    /\ result.op = "new"
    /\ result.argument = [type |-> "Photo", base64EncodedValue |-> "AA==AAAA"]
    /\ result.thrown = <<ensure("Photo", "be base64-encoded")>>
    /\ instances = <<>>

\* -------------------------------------------------------------- C13
\* C13: Artifact.fromJSON of an envelope whose type is no registered name
\* throws a LogicError whose message has that type and every registered name
\* in it, and leaves the instances as they were, whatever the
\* base64EncodedValue of the envelope.
C13_Step ==
    (Does("fromJSON") /\ result'.argument.type \notin Registered) =>
        /\ Threw("LogicError")
        /\ Includes(result'.thrown[1].message, result'.argument.type)
        /\ \A name \in Registered : Includes(result'.thrown[1].message, name)
        /\ instances' = instances

C13_UnknownTypeIsALogicError == [][C13_Step]_vars

\* an envelope of type Video with a well-formed value was refused
C13_Witness ==
    /\ result.op = "fromJSON"
    /\ result.argument = [type |-> "Video", base64EncodedValue |-> "AAA="]
    /\ Len(result.thrown) = 1
    /\ result.thrown[1].name = "LogicError"
    /\ Includes(result.thrown[1].message, "Video is not one of the recognised types: Photo, TextData")
    /\ instances = <<>>

\* -------------------------------------------------------------- C14
\* C14: when the handler of a call runs on a rejection, the outcome is that of
\* the first case that is true of the rejection, in the order timeout pattern,
\* network-error pattern, TypeError, no response, otherwise: the first, second
\* and fourth reject with a TestCompromisedError and the third with a
\* LogicError, each with the message of its case and leaving lastResponse as
\* it was, also when the rejection carries a response or is a TypeError; the
\* last resolves with the response and stores it.
Case(i, rejected) ==
    CASE i = 1 -> TimeoutExceeded(rejected.message)
      [] i = 2 -> NetworkError(rejected.message)
      [] i = 3 -> rejected.isTypeError
      [] i = 4 -> ~CarriesResponse(rejected)
      [] i = 5 -> TRUE

FirstCase(rejected) ==
    CHOOSE i \in 1..5 : Case(i, rejected) /\ \A j \in 1..(i - 1) : ~Case(j, rejected)

CaseError ==
    << TestCompromisedError("The request has timed out"),
       TestCompromisedError("A network error has occurred"),
       LogicError("Looks like there was an issue with Axios configuration"),
       TestCompromisedError("The API call has failed") >>

C14_Step ==
    \A k \in Issued :
        (Settles(k) /\ IsRejection(k)) =>
            LET rejected == RejectedWith(k)
                i        == FirstCase(rejected)
                c        == calls[k].cap
            IN  IF i = 5
                THEN /\ calls'[k].promise = Resolved(rejected.response)
                     /\ lastResponse'[c] = rejected.response
                ELSE /\ calls'[k].promise = Rejected(CaseError[i])
                     /\ lastResponse'[c] = lastResponse[c]

C15_State ==
    \A c \in Caps : ResolvedOn(c) = {} => lastResponse[c] = Undefined

C15_Step ==
    \A c \in Caps :
        lastResponse'[c] # lastResponse[c] =>
            \E k \in CallsOn(c) : Settles(k) /\ calls'[k].promise.kind = "resolved"

C15_UnsetUntilACallResolves == []C15_State /\ [][C15_Step]_vars

\* after a modifyConfig, one call was rejected, another is in flight, and
\* lastResponse is unset
C15_Witness ==
    /\ Len(calls) = 2
    /\ calls[1].cap = calls[2].cap
    /\ calls[1].promise.kind = "rejected"
    /\ calls[2].transport = Pending
    /\ assigned[axiosInstance[calls[1].cap]]["X"] # <<>>
    /\ lastResponse[calls[1].cap] = Undefined

\* -------------------------------------------------------------- C16
\* C16: a mapLastResponse() step, whether it returns or throws, makes no
\* transport call and leaves lastResponse, the defaults, the calls and the
\* reaction jobs as they were; and of two mapLastResponse() steps on a
\* capability with no step in between, the second returns or throws as the
\* first did, and what the two return is what their functions give for one
\* and the same response.
AllResponses == {R200, R201, R404, R500}

C16_Step ==
    \A c \in Caps, fn \in MapFns :
        Maps(c, fn) =>
            /\ wire' = <<>>
            /\ UNCHANGED <<lastResponse, defaults, created, axiosInstance, calls, jobs>>
            /\ mapped.cap = c =>
                /\ mapped'.outcome = mapped.outcome
                /\ mapped'.thrown = mapped.thrown
                /\ mapped.outcome = "returned" =>
                    \E response \in AllResponses :
                        /\ mapped.returned = <<ApplyMapFn(mapped.fn, response)>>
                        /\ mapped'.returned = <<ApplyMapFn(fn, response)>>

C16_MapLastResponseOnlyReads == [][C16_Step]_vars

\* mapLastResponse returned the data of the stored response while another call
\* was in flight, and the response is still stored
C16_Witness ==
    /\ mapped.outcome = "returned"
    /\ mapped.fn = "data"
    /\ mapped.returned = <<R201.data>>
    /\ lastResponse[mapped.cap] = R201
    /\ \E k \in CallsOn(mapped.cap) : calls[k].transport = Pending
    /\ wire = <<>>

\* -------------------------------------------------------------- C17
\* C17: when the handler of a call resolves the promise of request(), what it
\* stores in lastResponse is not taken for an unset slot, with or without a
\* body; and a mapLastResponse(fn) call on a capability on which a call has
\* resolved invokes fn and returns, and throws nothing.
C17_Step ==
    /\ \A k \in Issued :
        (Settles(k) /\ calls'[k].promise.kind = "resolved") =>
            /\ lastResponse'[calls[k].cap] = calls'[k].promise.value
            /\ ~Not(lastResponse'[calls[k].cap])
    /\ \A c \in Caps, fn \in MapFns :
        (Maps(c, fn) /\ ResolvedOn(c) # {}) =>
            /\ mapped'.outcome = "returned"
            /\ mapped'.fnInvoked
            /\ mapped'.thrown = <<>>
            /\ mapped'.returned = <<ApplyMapFn(fn, lastResponse[c])>>

C17_ResolvedResponseIsASetSlot == [][C17_Step]_vars

\* a call was resolved with a 500 response that has no body, and
\* mapLastResponse(r => r.data) returned its absent body
C17_Witness ==
    /\ mapped.outcome = "returned"
    /\ mapped.fn = "data"
    /\ mapped.returned = << <<>> >>
    /\ lastResponse[mapped.cap] = R500
    /\ \E k \in CallsOn(mapped.cap) : calls[k].promise = Resolved(R500)

\* -------------------------------------------------------------- C18
\* C18: every instance that exists has a well-formed base64EncodedValue; an
\* instance that exists stays and stays as it is in every step; and
\* Artifact.fromJSON of an envelope with a registered type and a
\* base64EncodedValue that is not well-formed throws the error of ensure(),
\* not a LogicError, and leaves the instances as they were.
C18_State ==
    \A i \in 1..Len(instances) : WellFormed(instances[i].base64EncodedValue)

C18_Step ==
    /\ Len(instances') >= Len(instances)
    /\ \A i \in 1..Len(instances) : instances'[i] = instances[i]
    /\ (/\ Does("fromJSON")
        /\ result'.argument.type \in Registered
        /\ ~WellFormed(result'.argument.base64EncodedValue)) =>
            /\ Threw("Error")
            /\ result'.thrown[1].name # "LogicError"
            /\ instances' = instances

C18_InstancesAreValidBase64 == []C18_State /\ [][C18_Step]_vars

\* the envelope of a Photo with three padding characters was refused by the
\* constructor
C18_Witness ==
    /\ result.op = "fromJSON"
    /\ result.argument = [type |-> "Photo", base64EncodedValue |-> "A==="]
    /\ result.thrown = <<ensure("Photo", "be base64-encoded")>>
    /\ result.returned = <<>>
    /\ instances = <<>>

\* -------------------------------------------------------------- C19
\* C19: a constructor, called directly or by Artifact.fromJSON, accepts a
\* string exactly when the string is well-formed base64; it refuses the empty
\* string, a string whose length is no multiple of four, a string with "="
\* before its last two characters and a string with three or more "=".
Checks == result.op \in {"new", "fromJSON"} /\ result.argument.type \in Registered

Accepted == result.returned # <<>>

Paddings(s) == { i \in 1..Len(s) : Char(s, i) = "=" }

C19_Base64CheckIsExact ==
    Checks =>
        LET s == result.argument.base64EncodedValue IN
            /\ Accepted <=> WellFormed(s)
            /\ s = "" => ~Accepted
            /\ Len(s) % 4 # 0 => ~Accepted
            /\ (\E i \in Paddings(s) : i < Len(s) - 1) => ~Accepted
            /\ Cardinality(Paddings(s)) >= 3 => ~Accepted

\* a string of two groups, the second ending in one "=", was accepted
C19_Witness ==
    /\ result.op = "new"
    /\ result.argument.base64EncodedValue = "AAAAAAA="
    /\ Accepted
    /\ instances # <<>>
    /\ instances[Len(instances)].base64EncodedValue = "AAAAAAA="

\* -------------------------------------------------------------- C20
\* C20: of two capabilities that wrap the same transport, a step that settles
\* a call on one leaves lastResponse of the other as it was, and a
\* mapLastResponse() on the other throws a LogicError as long as no call on
\* the other has resolved; and a request() on either is sent with what the
\* latest modifyConfig function assigned to the defaults of the transport,
\* on whichever of them modifyConfig() was called, where its own config gives
\* no value.
Sharing(c, d) ==
    /\ c # d
    /\ Constructed(c)
    /\ Constructed(d)
    /\ axiosInstance[c] = axiosInstance[d]

C20_Step ==
    \A c \in Caps, d \in Caps :
        Sharing(c, d) =>
            /\ \A k \in CallsOn(c) : Settles(k) => lastResponse'[d] = lastResponse[d]
            /\ \A fn \in MapFns :
                (Maps(d, fn) /\ ResolvedOn(d) = {}) =>
                    /\ mapped'.outcome = "threw"
                    /\ mapped'.thrown[1].name = "LogicError"
            /\ (Requests /\ calls'[Len(calls')].cap = d) =>
                /\ Len(wire') = 1
                /\ wire'[1].transport = axiosInstance[c]
                /\ \A f \in Fields :
                    (/\ FieldOf(wire'[1].config, f) = <<>>
                     /\ assigned[axiosInstance[c]][f] # <<>>) =>
                        FieldOf(wire'[1].effective, f) = assigned[axiosInstance[c]][f][1]

C20_SlotPerCapabilityDefaultsPerTransport == [][C20_Step]_vars

\* both capabilities wrap the Axios instance of the caller; a call on the
\* second has resolved and only the second has a response stored; after the
\* modifyConfig on the first, a request of the second was sent with header X
C20_Witness ==
    /\ axiosInstance[1] = External
    /\ axiosInstance[2] = External
    /\ Len(calls) = 2
    /\ calls[1].cap = 2
    /\ calls[1].promise = Resolved(R200)
    /\ lastResponse[2] = R200
    /\ lastResponse[1] = Undefined
    /\ calls[2].cap = 2
    /\ Len(wire) = 1
    /\ wire[1].call = 2
    /\ wire[1].config = EmptyConfig
    /\ wire[1].effective.headers["X"] = <<"v">>

====
